---- MODULE Spec2Model ----
(***************************************************************************)
(* Model of multi-disease-app/app.py: the /predict request handler, the    *)
(* schema registry EXPECTED_FIELDS, the categorical encodings              *)
(* BREAST_CANCER_ENCODINGS and the key normaliser norm().                  *)
(*                                                                         *)
(* Strings are TLA+ strings, taken apart character by character, so that   *)
(* strip / lower / replace / title / float() / join are computed the way   *)
(* Python computes them.  The warning glyphs that open the messages of     *)
(* app.py are left out of the message texts (the module is ASCII only).    *)
(***************************************************************************)
EXTENDS Integers, Sequences, FiniteSets, TLC

VARIABLES models, pc, disease, form, features, missing_fields, probe, calls, reply,
          outcome, escaped

vars == <<models, pc, disease, form, features, missing_fields, probe, calls, reply,
          outcome, escaped>>

(***************************************************************************)
(* An optional value (Python's None or a value) is a sequence of length    *)
(* at most one.                                                            *)
(***************************************************************************)
None == <<>>
Some(v) == <<v>>

(* ------------------------------------------------------------------ *)
(* Python string primitives used by app.py                             *)
(* ------------------------------------------------------------------ *)
Char(s, i) == SubSeq(s, i, i)

UpperLetters == "ABCDEFGHIJKLMNOPQRSTUVWXYZ"
LowerLetters == "abcdefghijklmnopqrstuvwxyz"
Digits == "0123456789"

LetterIndex == 1..26

UpperSet == {Char(UpperLetters, i) : i \in LetterIndex}
LowerSet == {Char(LowerLetters, i) : i \in LetterIndex}
DigitSet == {Char(Digits, i) : i \in 1..10}

(* str.lower() / str.upper() on one character *)
ToLower == [c \in UpperSet |-> Char(LowerLetters, CHOOSE i \in LetterIndex : Char(UpperLetters, i) = c)]
ToUpper == [c \in LowerSet |-> Char(UpperLetters, CHOOSE i \in LetterIndex : Char(LowerLetters, i) = c)]

lowerChar(c) == IF c \in UpperSet THEN ToLower[c] ELSE c
upperChar(c) == IF c \in LowerSet THEN ToUpper[c] ELSE c

IsSpace(c) == c = " "
IsCased(c) == c \in UpperSet \/ c \in LowerSet

RECURSIVE lower(_)
lower(s) == IF s = "" THEN "" ELSE lowerChar(Head(s)) \o lower(Tail(s))

RECURSIVE upper(_)
upper(s) == IF s = "" THEN "" ELSE upperChar(Head(s)) \o upper(Tail(s))

(* str.strip(): drop leading and trailing whitespace *)
RECURSIVE lstrip(_)
lstrip(s) == IF s # "" /\ IsSpace(Head(s)) THEN lstrip(Tail(s)) ELSE s

RECURSIVE rstrip(_)
rstrip(s) == IF s # "" /\ IsSpace(Char(s, Len(s))) THEN rstrip(SubSeq(s, 1, Len(s) - 1)) ELSE s

strip(s) == rstrip(lstrip(s))

(* str.replace(old, new) for a one-character old *)
RECURSIVE replace(_, _, _)
replace(s, old, new) ==
    IF s = "" THEN ""
    ELSE (IF Head(s) = old THEN new ELSE Head(s)) \o replace(Tail(s), old, new)

(* str.title(): a cased character is upper-cased after an uncased one (or at
   the start) and lower-cased after a cased one *)
RECURSIVE titleFrom(_, _)
titleFrom(s, prevCased) ==
    IF s = "" THEN ""
    ELSE (IF prevCased THEN lowerChar(Head(s)) ELSE upperChar(Head(s)))
         \o titleFrom(Tail(s), IsCased(Head(s)))

title(s) == titleFrom(s, FALSE)

(* sep.join(seq) *)
RECURSIVE join(_, _)
join(sep, seq) ==
    IF seq = <<>> THEN ""
    ELSE IF Len(seq) = 1 THEN seq[1]
    ELSE seq[1] \o sep \o join(sep, Tail(seq))

(* sub in s *)
Contains(s, sub) ==
    \E i \in 1..(Len(s) - Len(sub) + 1) : SubSeq(s, i, i + Len(sub) - 1) = sub

(* str(n) for an integer n *)
RECURSIVE natStr(_)
natStr(n) == IF n < 10 THEN Char(Digits, n + 1) ELSE natStr(n \div 10) \o Char(Digits, (n % 10) + 1)

intStr(n) == IF n < 0 THEN "-" \o natStr(0 - n) ELSE natStr(n)

(* ------------------------------------------------------------------ *)
(* float(): the decimal part of Python's float grammar                 *)
(*   [ws] [+|-] digits [. digits*] [ws]   or   [ws] [+|-] . digits+ [ws] *)
(* A float is kept exactly: mant / 10^frac, with no trailing zero in   *)
(* the fraction.  Anything else raises ValueError.                     *)
(* ------------------------------------------------------------------ *)
ValueError == [error |-> "ValueError", mant |-> 0, frac |-> 0]

AllDigits(s) == \A i \in 1..Len(s) : Char(s, i) \in DigitSet

DigitVal == [c \in DigitSet |-> CHOOSE d \in 0..9 : Char(Digits, d + 1) = c]

RECURSIVE natOf(_, _)
natOf(s, acc) == IF s = "" THEN acc ELSE natOf(Tail(s), acc * 10 + DigitVal[Head(s)])

RECURSIVE normFloat(_, _)
normFloat(mant, frac) ==
    IF frac > 0 /\ mant % 10 = 0 THEN normFloat(mant \div 10, frac - 1)
    ELSE [error |-> "", mant |-> mant, frac |-> frac]

FloatOfInt(n) == [error |-> "", mant |-> n, frac |-> 0]

Negate(x) == IF x = ValueError THEN x ELSE [x EXCEPT !.mant = 0 - x.mant]

(* the digits before and after the point *)
ParseParts(ip, fp) ==
    IF AllDigits(ip) /\ AllDigits(fp) /\ Len(ip) + Len(fp) > 0
    THEN normFloat(natOf(ip \o fp, 0), Len(fp))
    ELSE ValueError

(* where the first point stands, or past the end *)
DotPos(body) ==
    IF \E i \in 1..Len(body) : Char(body, i) = "."
    THEN CHOOSE i \in 1..Len(body) :
             Char(body, i) = "." /\ \A j \in 1..(i - 1) : Char(body, j) # "."
    ELSE Len(body) + 1

ParseAt(body, dot) == ParseParts(SubSeq(body, 1, dot - 1), SubSeq(body, dot + 1, Len(body)))

ParseUnsigned(body) == ParseAt(body, DotPos(body))

ParseSigned(t) ==
    IF t # "" /\ Head(t) = "-" THEN Negate(ParseUnsigned(Tail(t)))
    ELSE IF t # "" /\ Head(t) = "+" THEN ParseUnsigned(Tail(t))
    ELSE ParseUnsigned(t)

float(s) == ParseSigned(strip(s))

(* ------------------------------------------------------------------ *)
(* The registries                                                      *)
(* ------------------------------------------------------------------ *)
(* the keys of `models` after a successful load *)
MODEL_KEYS == {"breast_cancer", "diabetes", "heart_disease", "stroke"}

EXPECTED_FIELDS ==
    [diabetes |-> <<"pregnancies", "glucose", "bloodpressure", "skinthickness",
                    "insulin", "bmi", "diabetespedigree", "age">>,
     heart_disease |-> <<"age", "gender", "chestpain", "restingBP", "serumcholestrol",
                         "fastingbloodsugar", "restingrelectro", "maxheartrate",
                         "exerciseangia", "oldpeak", "slope", "noofmajorvessels">>,
     breast_cancer |-> <<"age", "race", "marital_status", "t_stage", "n_stage",
                         "sixth_stage", "differentiate", "grade", "a_stage",
                         "tumor_size", "estrogen_status", "progesterone_status",
                         "regional_node_examined", "reginol_node_positive",
                         "survival_months">>,
     stroke |-> <<"Chest Pain", "Shortness of Breath", "Irregular Heartbeat",
                  "Fatigue & Weakness", "Dizziness", "Swelling (Edema)",
                  "Pain in Neck/Jaw/Shoulder/Back", "Excessive Sweating",
                  "Persistent Cough", "Nausea/Vomiting", "High Blood Pressure",
                  "Chest Discomfort (Activity)", "Cold Hands/Feet",
                  "Snoring/Sleep Apnea", "Anxiety/Feeling of Doom", "Age",
                  "Stroke Risk (%)">>]

(* a Python dict literal keeps insertion order: each encoding is the
   sequence of its (label, code) items *)
BREAST_CANCER_ENCODINGS ==
    [race |-> <<<<"Black", 0>>, <<"Other", 1>>, <<"White", 2>>>>,
     marital_status |-> <<<<"Divorced", 0>>, <<"Married", 1>>, <<"Separated", 2>>,
                          <<"Single", 3>>, <<"Widowed", 4>>>>,
     t_stage |-> <<<<"T1", 0>>, <<"T2", 1>>, <<"T3", 2>>, <<"T4", 3>>>>,
     n_stage |-> <<<<"N1", 0>>, <<"N2", 1>>, <<"N3", 2>>>>,
     sixth_stage |-> <<<<"IIA", 0>>, <<"IIB", 1>>, <<"IIIA", 2>>, <<"IIIB", 3>>,
                       <<"IIIC", 4>>>>,
     differentiate |-> <<<<"Moderately differentiated", 0>>, <<"Poorly differentiated", 1>>,
                         <<"Undifferentiated", 2>>, <<"Well differentiated", 3>>>>,
     grade |-> <<<<"1", 0>>, <<"2", 1>>, <<"3", 2>>, <<"anaplastic", 3>>>>,
     a_stage |-> <<<<"Distant", 0>>, <<"Regional", 1>>>>,
     estrogen_status |-> <<<<"Negative", 0>>, <<"Positive", 1>>>>,
     progesterone_status |-> <<<<"Negative", 0>>, <<"Positive", 1>>>>]

(* EXPECTED_FIELDS.get(disease_key, []) *)
ExpectedFieldsGet(disease_key) ==
    IF disease_key \in DOMAIN EXPECTED_FIELDS THEN EXPECTED_FIELDS[disease_key] ELSE <<>>

(* disease_key == "breast_cancer" and field in BREAST_CANCER_ENCODINGS *)
IsCategorical(disease_key, field) ==
    disease_key = "breast_cancer" /\ field \in DOMAIN BREAST_CANCER_ENCODINGS

(* def norm(k): k.strip().lower().replace(" ", "_") *)
norm(k) == replace(lower(strip(k)), " ", "_")


(* ------------------------------------------------------------------ *)
(* The submitted text                                                  *)
(* ------------------------------------------------------------------ *)
(* a request is a complete, well-formed submission for a registered
   disease, changed in at most MaxDeviations places (the disease id or a
   field) *)
MaxDeviations == 2

FieldEdits == {"absent", "blank", "malformed", "rekeyed"}

(* a well-formed value for field number i: a label of the field's encoding
   for a categorical field, a decimal number otherwise; every third one is
   padded with spaces *)
ValidValue(disease_key, i) ==
    LET field == EXPECTED_FIELDS[disease_key][i]
        v == IF IsCategorical(disease_key, field)
             THEN LET items == BREAST_CANCER_ENCODINGS[field]
                  IN  items[(i % Len(items)) + 1][1]
             ELSE IF i % 2 = 0 THEN intStr(i) ELSE intStr(i) \o ".5"
    IN  IF i % 3 = 0 THEN " " \o v \o " " ELSE v

(* a value that cannot be coerced: no label of any encoding, no number *)
MalformedValue(disease_key, i) ==
    IF IsCategorical(disease_key, EXPECTED_FIELDS[disease_key][i]) THEN "7" ELSE "abc"

(* the field name as a form might spell it: upper case, spaces for
   underscores, padded *)
KeyVariant(field) == " " \o upper(replace(field, "_", " ")) \o " "

(* the pairs submitted for field number i under the edit e ("" for none) *)
FieldPairs(disease_key, i, e) ==
    LET field == EXPECTED_FIELDS[disease_key][i]
        v == ValidValue(disease_key, i)
    IN  CASE e = "absent" -> <<>>
          [] e = "blank" -> <<<<field, "  ">>>>
          [] e = "malformed" -> <<<<field, MalformedValue(disease_key, i)>>>>
          [] e = "rekeyed" -> <<<<KeyVariant(field), v>>>>
          [] OTHER -> <<<<field, v>>>>

(* the disease id as submitted: absent, empty, blank, unknown, or the id in
   another spelling *)
DiseaseEdits(disease_key) ==
    {None, Some(""), Some("   "), Some("flu"),
     Some(" " \o upper(disease_key) \o " "), Some(replace(disease_key, "_", " "))}
    \ {Some(disease_key)}

(* every (key, value) pair a form can hold, its keys and its values, and
   every disease id *)
PairSpace ==
    UNION {UNION {{FieldPairs(dk, i, e)[1] : e \in (FieldEdits \cup {""}) \ {"absent"}} :
                  i \in 1..Len(EXPECTED_FIELDS[dk])} :
           dk \in MODEL_KEYS}
KeySpace == {p[1] : p \in PairSpace}
ValueSpace == {p[2] : p \in PairSpace}
DiseaseSpace ==
    {d[1] : d \in UNION {(DiseaseEdits(dk) \cup {Some(dk)}) \ {None} : dk \in MODEL_KEYS}}

(* line 67: disease.strip().lower() *)
DiseaseKey(d) == lower(strip(d))

(* norm(), str.strip(), float() and the disease key are evaluated once per
   submitted text and looked up afterwards *)
normMemo == [k \in KeySpace |-> norm(k)]
stripMemo == [v \in ValueSpace |-> strip(v)]
floatMemo == [v \in {strip(w) : w \in ValueSpace} |-> float(v)]
diseaseKeyMemo == [d \in DiseaseSpace |-> DiseaseKey(d)]
pairsMemo ==
    [dk \in MODEL_KEYS |->
        [i \in 1..Len(EXPECTED_FIELDS[dk]) |->
            [e \in FieldEdits \cup {""} |-> FieldPairs(dk, i, e)]]]

(* ------------------------------------------------------------------ *)
(* request.form: a multi-dict, the sequence of the submitted           *)
(* (key, value) pairs                                                  *)
(* ------------------------------------------------------------------ *)
(* request.form.get(key): the first value under key, or None *)
FormGet(f, key) ==
    LET hits == {i \in 1..Len(f) : f[i][1] = key}
    IN  IF hits = {} THEN None
        ELSE Some(f[CHOOSE i \in hits : \A j \in hits : i <= j][2])

(* request.form.keys(): the distinct keys, in order of first appearance *)
FormKeys(f) ==
    LET first == {i \in 1..Len(f) : \A j \in 1..(i - 1) : f[j][1] # f[i][1]}
        RECURSIVE pick(_)
        pick(i) == IF i > Len(f) THEN <<>>
                   ELSE (IF i \in first THEN <<f[i][1]>> ELSE <<>>) \o pick(i + 1)
    IN  pick(1)

(* lines 75-81: the exact key, else the first key whose norm() is the field *)
LookupField(f, field) ==
    LET value == FormGet(f, field)
        keys == FormKeys(f)
        hits == {i \in 1..Len(keys) : normMemo[keys[i]] = field}
    IN  IF value # None THEN value
        ELSE IF hits = {} THEN None
        ELSE FormGet(f, keys[CHOOSE i \in hits : \A j \in hits : i <= j])

(* line 82: value is None or value.strip() == "" *)
IsMissing(value) == value = None \/ stripMemo[value[1]] = ""

(* ------------------------------------------------------------------ *)
(* render_template("result.html", disease=..., result=...)              *)
(* ------------------------------------------------------------------ *)
Render(d, r) == [disease |-> d, result |-> r]

NoDiseaseSelected == Render("Input Error", "No disease selected.")
ModelNotFound == Render("Error", "Model not found. Check model files.")
InvalidValue(field, value) ==
    Render("Input Error",
           "Invalid value '" \o value \o "' for field '" \o field \o "'. Please select a valid option.")
MustBeNumeric(field, value) ==
    Render("Input Error", "Field '" \o field \o "' must be numeric. Got '" \o value \o "'.")
MissingFieldsFirstOnly(ms) ==
    Render("Input Error", "Missing fields: " \o ms[1] \o ". Check your form.")
MissingFields(ms) ==
    Render("Input Error", "Missing fields: " \o join(", ", ms) \o ". Check your form.")
NoInputFeatures == Render("Input Error", "No input features found.")
WidthMismatch(got, expected) ==
    Render("Input Error",
           "Number of inputs (" \o intStr(got) \o ") does not match model expectation ("
           \o intStr(expected) \o ").")
SystemError(e) == Render("System Error", "Unexpected error: " \o e)

(* ------------------------------------------------------------------ *)
(* predict(), lines 62-115: up to the assembled feature list           *)
(* ------------------------------------------------------------------ *)
(* the handler returned early with outcome o / went on, with the lists
   features and missing_fields as they stand *)
Returned(o, fs, ms) == [returned |-> TRUE, outcome |-> o, features |-> fs, missing_fields |-> ms]
Collected(fs, ms) ==
    [returned |-> FALSE, outcome |-> Render("", ""), features |-> fs, missing_fields |-> ms]

(* .get(label, 0): an unknown label silently defaulted *)
EncodingGetDefaultZero(field, label) ==
    LET items == BREAST_CANCER_ENCODINGS[field]
        hits == {i \in 1..Len(items) : items[i][1] = label}
    IN  IF hits = {} THEN Some(0) ELSE Some(items[CHOOSE i \in hits : TRUE][2])

(* line 89: BREAST_CANCER_ENCODINGS[field].get(label): the code, or None *)
EncodingGet(field, label) ==
    LET items == BREAST_CANCER_ENCODINGS[field]
        hits == {i \in 1..Len(items) : items[i][1] = label}
    IN  IF hits = {} THEN None ELSE Some(items[CHOOSE i \in hits : TRUE][2])

(* lines 85-105: one found value, coerced and appended; an early return on
   a bad one *)
Coerce(disease_key, field, value, fs, ms) ==
    IF IsCategorical(disease_key, field)
    THEN LET encoded_value == EncodingGet(field, stripMemo[value])
         IN  IF encoded_value = None
             THEN Returned(InvalidValue(field, value), fs, ms)
             ELSE Collected(Append(fs, FloatOfInt(encoded_value[1])), ms)
    ELSE LET x == floatMemo[stripMemo[value]]
         IN  IF x = ValueError
             THEN Returned(MustBeNumeric(field, value), fs, ms)
             ELSE Collected(Append(fs, x), ms)

(* the loop with a missing field reported as soon as it is met *)
RECURSIVE CollectFromMissingFirst(_, _, _, _, _)
CollectFromMissingFirst(disease_key, f, i, fs, ms) ==
    LET fields == ExpectedFieldsGet(disease_key)
    IN  IF i > Len(fields) THEN Collected(fs, ms)
        ELSE LET field == fields[i]
                 value == LookupField(f, field)
             IN  IF IsMissing(value)
                 THEN Returned(MissingFields(<<field>>), fs, <<field>>)
                 ELSE LET c == Coerce(disease_key, field, value[1], fs, ms)
                      IN  IF c.returned THEN c
                          ELSE CollectFromMissingFirst(disease_key, f, i + 1,
                                                       c.features, c.missing_fields)

(* lines 74-105: the loop over the schema, from field number i on *)
RECURSIVE CollectFrom(_, _, _, _, _)
CollectFrom(disease_key, f, i, fs, ms) ==
    LET fields == ExpectedFieldsGet(disease_key)
    IN  IF i > Len(fields) THEN Collected(fs, ms)
        ELSE LET field == fields[i]
                 value == LookupField(f, field)
             IN  IF IsMissing(value)
                 THEN CollectFrom(disease_key, f, i + 1, fs, Append(ms, field))
                 ELSE LET c == Coerce(disease_key, field, value[1], fs, ms)
                      IN  IF c.returned THEN c
                          ELSE CollectFrom(disease_key, f, i + 1, c.features, c.missing_fields)

(* features.insert(0, x) in place of features.append(x) *)
CollectFeaturesReversed(disease_key, f) ==
    LET c == CollectFrom(disease_key, f, 1, <<>>, <<>>)
    IN  [c EXCEPT !.features = [i \in 1..Len(c.features) |-> c.features[Len(c.features) + 1 - i]]]

(* lines 72-105 *)
CollectFeatures(disease_key, f) == CollectFrom(disease_key, f, 1, <<>>, <<>>)

(* "if disease is None" in place of "if not disease" *)
NoDiseaseNoneOnly(d) == d = None

(* line 64: not disease *)
NoDisease(d) == d = None \/ d[1] = ""

(* "not in EXPECTED_FIELDS" in place of "not in models" *)
UnregisteredBySchema(registered, disease_key) == disease_key \notin DOMAIN EXPECTED_FIELDS

(* line 68: disease_key not in models *)
Unregistered(registered, disease_key) == disease_key \notin registered

(* lines 62-115: an early return, or the features for the classifier *)
Validate(registered, d, f) ==
    IF NoDisease(d) THEN Returned(NoDiseaseSelected, <<>>, <<>>)
    ELSE IF Unregistered(registered, diseaseKeyMemo[d[1]]) THEN Returned(ModelNotFound, <<>>, <<>>)
    ELSE LET c == CollectFeatures(diseaseKeyMemo[d[1]], f)
         IN  IF c.returned THEN c
             ELSE IF c.missing_fields # <<>>
             THEN Returned(MissingFields(c.missing_fields), c.features, c.missing_fields)
             ELSE IF Len(c.features) = 0
             THEN Returned(NoInputFeatures, c.features, c.missing_fields)
             ELSE c

(* ------------------------------------------------------------------ *)
(* predict(), lines 117-139: the classifier and the verdict            *)
(* ------------------------------------------------------------------ *)
(* what model.predict(X)[0] gives: an int / np.integer label, a label of
   another type (text is its str()), or a raised exception (text is its
   message) *)
IntLabel(k) == [kind |-> "int", value |-> k, text |-> intStr(k)]
OtherLabel(t) == [kind |-> "other", value |-> 0, text |-> t]
Fault(t) == [kind |-> "fault", value |-> 0, text |-> t]

(* the check made only against a vector that is too long *)
WidthRejectedWhenLong(clf, X) == clf.has_width /\ Len(X) > clf.n_features_in_

(* line 121: hasattr(model, "n_features_in_") and X.shape[1] != model.n_features_in_ *)
WidthRejected(clf, X) == clf.has_width /\ Len(X) # clf.n_features_in_

(* "if prediction_value" in place of "int(prediction_value) == 1" *)
ResultTextTruthy(prediction_value) ==
    IF prediction_value.kind = "int"
    THEN (IF prediction_value.value # 0 THEN "Positive - High Risk" ELSE "Negative - Low Risk")
    ELSE "Prediction: " \o prediction_value.text

(* lines 131-134 *)
ResultText(prediction_value) ==
    IF prediction_value.kind = "int"
    THEN (IF prediction_value.value = 1 THEN "Positive - High Risk" ELSE "Negative - Low Risk")
    ELSE "Prediction: " \o prediction_value.text

(* line 136: disease.replace("_", " ").title() *)
DiseaseTitle(d) == title(replace(d, "_", " "))

(* lines 117-136 for the classifier clf: the outcome, the calls made to
   predict, and the exception raised out of the try body, if any *)
Dispatch(d, X, clf) ==
    IF WidthRejected(clf, X)
    THEN [outcome |-> Some(WidthMismatch(Len(X), clf.n_features_in_)),
          calls |-> <<>>, reply |-> None, raised |-> None]
    ELSE IF clf.predict.kind = "fault"
    THEN [outcome |-> None, calls |-> <<X>>, reply |-> Some(clf.predict),
          raised |-> Some(clf.predict.text)]
    ELSE [outcome |-> Some(Render(DiseaseTitle(d), ResultText(clf.predict))),
          calls |-> <<X>>, reply |-> Some(clf.predict), raised |-> None]

(* the body of predict() with no try around it *)
Unguarded(r) == r

(* lines 61, 138-139: try ... except Exception as e *)
Guarded(r) ==
    IF r.raised # None
    THEN [r EXCEPT !.outcome = Some(SystemError(r.raised[1])), !.raised = None]
    ELSE r

(* ------------------------------------------------------------------ *)
(* The requests and the classifiers the handler is run on              *)
(* ------------------------------------------------------------------ *)
RECURSIVE FormFrom(_, _, _)
FormFrom(disease_key, edits, i) ==
    IF i > Len(EXPECTED_FIELDS[disease_key]) THEN <<>>
    ELSE pairsMemo[disease_key][i][IF i \in DOMAIN edits THEN edits[i] ELSE ""]
         \o FormFrom(disease_key, edits, i + 1)

EditedForm(disease_key, edits) == FormFrom(disease_key, edits, 1)

RECURSIVE SubsetsUpTo(_, _)
SubsetsUpTo(n, k) ==
    IF n = 0 \/ k = 0 THEN {{}}
    ELSE SubsetsUpTo(n - 1, k) \cup {s \cup {n} : s \in SubsetsUpTo(n - 1, k - 1)}

(* the stub classifiers: with or without n_features_in_ (the schema's
   width or one more), and what their predict gives *)
Replies ==
    {IntLabel(k) : k \in {0, 1, 2}} \cup {OtherLabel("1.0"), Fault("model failure")}

Classifiers(n) ==
    {[has_width |-> FALSE, n_features_in_ |-> 0, predict |-> r] : r \in Replies}
    \cup {[has_width |-> TRUE, n_features_in_ |-> w, predict |-> r] :
             w \in {n, n + 1}, r \in Replies}

(* ------------------------------------------------------------------ *)
(* The state machine                                                   *)
(* ------------------------------------------------------------------ *)
(* lines 11-21: every model loaded, or none (the load failed) *)
Init ==
    /\ models \in {MODEL_KEYS, {}}
    /\ pc = "idle"
    /\ disease = None
    /\ form = <<>>
    /\ features = <<>>
    /\ missing_fields = <<>>
    /\ probe = None
    /\ calls = <<>>
    /\ reply = None
    /\ outcome = None
    /\ escaped = None

(* lines 59-60: a POST to /predict arrives with its form *)
Receive ==
    /\ pc = "idle"
    /\ \E disease_key \in MODEL_KEYS :
         \E S \in SubsetsUpTo(Len(EXPECTED_FIELDS[disease_key]), MaxDeviations) :
           \E edits \in [S -> FieldEdits] :
             /\ form' = EditedForm(disease_key, edits)
             /\ disease' \in {Some(disease_key)} \cup
                    (IF Cardinality(S) < MaxDeviations THEN DiseaseEdits(disease_key) ELSE {})
    /\ pc' = "received"
    /\ UNCHANGED <<models, features, missing_fields, probe, calls, reply, outcome, escaped>>

(* lines 60-139: the whole of predict() on the request received *)
predict ==
    /\ pc = "received"
    /\ \E v \in {Validate(models, disease, form)} :
        /\ features' = v.features
        /\ missing_fields' = v.missing_fields
        /\ IF v.returned
           THEN /\ outcome' = Some(v.outcome)
                /\ probe' = None
                /\ calls' = <<>>
                /\ reply' = None
                /\ escaped' = None
           ELSE \E clf \in Classifiers(Len(v.features)) :
                  \E r \in {Guarded(Dispatch(disease[1], v.features, clf))} :
                        /\ outcome' = r.outcome
                        /\ probe' = Some([has_width |-> clf.has_width,
                                          n_features_in_ |-> clf.n_features_in_])
                        /\ calls' = r.calls
                        /\ reply' = r.reply
                        /\ escaped' = r.raised
    /\ pc' = "done"
    /\ UNCHANGED <<models, disease, form>>

(* the response is sent; the request's data is dropped *)
Respond ==
    /\ pc = "done"
    /\ pc' = "idle"
    /\ disease' = None
    /\ form' = <<>>
    /\ features' = <<>>
    /\ missing_fields' = <<>>
    /\ probe' = None
    /\ calls' = <<>>
    /\ reply' = None
    /\ outcome' = None
    /\ escaped' = None
    /\ UNCHANGED models

Next == Receive \/ predict \/ Respond

Spec == Init /\ [][Next]_vars

(* ------------------------------------------------------------------ *)
(* Vocabulary of the properties                                        *)
(* ------------------------------------------------------------------ *)
Done == pc = "done"

(* the request named a disease and its normalised id is registered *)
Resolved == Done /\ disease # None /\ disease[1] # "" /\ diseaseKeyMemo[disease[1]] \in models

Key == diseaseKeyMemo[disease[1]]
Schema == EXPECTED_FIELDS[Key]

KnownLabel(field, label) ==
    \E j \in 1..Len(BREAST_CANCER_ENCODINGS[field]) : BREAST_CANCER_ENCODINGS[field][j][1] = label

CodeOf(field, label) ==
    LET items == BREAST_CANCER_ENCODINGS[field]
    IN  items[CHOOSE j \in 1..Len(items) : items[j][1] = label][2]

HasEncoding(i) == Key = "breast_cancer" /\ Schema[i] \in DOMAIN BREAST_CANCER_ENCODINGS

(* the float a well-formed value stands for *)
Coerced(i, v) ==
    IF HasEncoding(i) THEN FloatOfInt(CodeOf(Schema[i], stripMemo[v[1]]))
    ELSE floatMemo[stripMemo[v[1]]]

(* the error of a malformed value *)
MalformedError(i, v) ==
    IF HasEncoding(i) THEN InvalidValue(Schema[i], v[1]) ELSE MustBeNumeric(Schema[i], v[1])

(* what the submission carries for each schema field, in schema order: the
   value under the exact key, else under the first key that normalises to
   the field name, and whether it is missing, well formed ("ok") or
   malformed ("bad") *)
StatusOf(key, field, v) ==
    IF v = None THEN "missing"
    ELSE LET t == stripMemo[v[1]]
         IN  IF t = "" THEN "missing"
             ELSE IF key = "breast_cancer" /\ field \in DOMAIN BREAST_CANCER_ENCODINGS
             THEN (IF KnownLabel(field, t) THEN "ok" ELSE "bad")
             ELSE (IF floatMemo[t] # ValueError THEN "ok" ELSE "bad")

(* the first value under each key, and under each normalised key *)
RECURSIVE FirstByKey(_)
FirstByKey(p) ==
    IF p > Len(form) THEN <<>> ELSE (form[p][1] :> form[p][2]) @@ FirstByKey(p + 1)

RECURSIVE FirstByNorm(_)
FirstByNorm(p) ==
    IF p > Len(form) THEN <<>> ELSE (normMemo[form[p][1]] :> form[p][2]) @@ FirstByNorm(p + 1)

RECURSIVE FieldsOf(_, _, _, _, _)
FieldsOf(key, schema, exact, normed, i) ==
    IF i > Len(schema) THEN <<>>
    ELSE LET v == IF schema[i] \in DOMAIN exact THEN Some(exact[schema[i]])
                  ELSE IF schema[i] \in DOMAIN normed THEN Some(normed[schema[i]])
                  ELSE None
         IN  <<[value |-> v, status |-> StatusOf(key, schema[i], v)]>>
             \o FieldsOf(key, schema, exact, normed, i + 1)

Submitted == FieldsOf(Key, Schema, FirstByKey(1), FirstByNorm(1), 1)

RECURSIVE NamesAt(_, _, _)
NamesAt(names, picked, i) ==
    IF i > Len(names) THEN <<>>
    ELSE (IF i \in picked THEN <<names[i]>> ELSE <<>>) \o NamesAt(names, picked, i + 1)

IsInputError(o) == o.disease \in {"Input Error", "Error"}
IsSystemError(o) == o.disease = "System Error"
IsMissingFieldsError(o) ==
    o.disease = "Input Error" /\ Len(o.result) >= 15 /\ SubSeq(o.result, 1, 15) = "Missing fields:"

(* the texts the handler renders, and those among them that mention a
   phrase (looked for once per text) *)
ErrorTexts ==
    {NoDiseaseSelected.result, ModelNotFound.result, NoInputFeatures.result}
    \cup {SystemError(r.text).result : r \in {x \in Replies : x.kind = "fault"}}
VerdictTexts == {ResultText(r) : r \in {x \in Replies : x.kind # "fault"}}

MentionModelNotFound == {t \in ErrorTexts : Contains(lower(t), "model not found")}
MentionNoDiseaseSelected == {t \in ErrorTexts : Contains(lower(t), "no disease selected")}
MentionHighRisk == {t \in VerdictTexts : Contains(t, "High Risk")}
MentionLowRisk == {t \in VerdictTexts : Contains(t, "Low Risk")}

(* a submitted disease name, underscores turned into spaces, title-cased *)
TitledName == [d \in DiseaseSpace |-> title(replace(d, "_", " "))]

NotInvoked == calls = <<>> /\ reply = None
NothingExtracted == features = <<>> /\ missing_fields = <<>> /\ probe = None

(* ------------------------------------------------------------------ *)
(* C1: for a registered disease, when some schema fields are missing   *)
(* and every other field is well formed, the outcome is the "Missing   *)
(* fields" input error listing exactly the missing names, each once,   *)
(* in schema order, joined by ", ", and the classifier is not invoked. *)
(* ------------------------------------------------------------------ *)
C1_MissingFieldsAggregated ==
    Resolved =>
        \A sub \in {Submitted} :
            LET missing == {i \in 1..Len(sub) : sub[i].status = "missing"}
            IN  (missing # {} /\ \A i \in 1..Len(sub) : sub[i].status # "bad")
                => /\ outcome = Some(Render("Input Error",
                                            "Missing fields: "
                                            \o join(", ", NamesAt(Schema, missing, 1))
                                            \o ". Check your form."))
                   /\ NotInvoked

C1_Witness ==
    /\ Done
    /\ disease = Some("diabetes")
    /\ outcome = Some(Render("Input Error", "Missing fields: glucose, age. Check your form."))

(* ------------------------------------------------------------------ *)
(* C2: for every schema field of every registered disease, a non-blank *)
(* value under a key that differs from the field name only in letter   *)
(* case, outer whitespace or spaces for underscores makes the field    *)
(* supplied: it is never listed as missing.                            *)
(* ------------------------------------------------------------------ *)
C2_LookupInsensitive ==
    Resolved =>
        \A i \in 1..Len(Schema) :
            (\E p \in 1..Len(form) : /\ normMemo[form[p][1]] = normMemo[Schema[i]]
                                     /\ stripMemo[form[p][2]] # "")
            => \A m \in 1..Len(missing_fields) : missing_fields[m] # Schema[i]

(* ------------------------------------------------------------------ *)
(* C3: a classifier that declares an input width other than the length *)
(* of the assembled vector gets no call: the outcome is an input error *)
(* reporting the received and the expected count.                      *)
(* ------------------------------------------------------------------ *)
C3_WidthMismatchRejected ==
    (Done /\ probe # None /\ probe[1].has_width /\ probe[1].n_features_in_ # Len(features))
    => /\ outcome = Some(Render("Input Error",
                                "Number of inputs (" \o intStr(Len(features))
                                \o ") does not match model expectation ("
                                \o intStr(probe[1].n_features_in_) \o ")."))
       /\ NotInvoked

C3_Witness ==
    /\ Done
    /\ probe = Some([has_width |-> TRUE, n_features_in_ |-> 9])
    /\ Len(features) = 8
    /\ outcome = Some(Render("Input Error",
                             "Number of inputs (8) does not match model expectation (9)."))

C5_FaultsBecomeSystemErrors ==
    Done =>
        /\ Len(outcome) = 1
        /\ escaped = None
        /\ Len(calls) <= 1
        /\ (reply # None /\ reply[1].kind = "fault")
           => /\ outcome = Some(Render("System Error", "Unexpected error: " \o reply[1].text))
              /\ Len(calls) = 1

C5_Witness ==
    /\ Done
    /\ reply = Some(Fault("model failure"))
    /\ outcome = Some(Render("System Error", "Unexpected error: model failure"))
    /\ escaped = None

(* ------------------------------------------------------------------ *)
(* C6 as stated: for breast_cancer and each field with an encoding, a  *)
(* submitted label that is no key of the encoding yields the input     *)
(* error naming that field and value, with no classifier call; a label *)
(* that is a key puts its code, as a float, at the field's position of *)
(* the vector passed to the classifier; for every other disease/field  *)
(* pair the value is parsed as a number.                               *)
(* ------------------------------------------------------------------ *)
C6_Original ==
    Resolved =>
        \A sub \in {Submitted} :
            \A i \in 1..Len(sub) :
                /\ (HasEncoding(i) /\ sub[i].status = "bad")
                   => (outcome = Some(InvalidValue(Schema[i], sub[i].value[1])) /\ NotInvoked)
                /\ calls # <<>> => calls[1][i] = Coerced(i, sub[i].value)

(* ------------------------------------------------------------------ *)
(* C6 amended: the input error names the field with the unknown label  *)
(* provided no earlier field of the schema is present and malformed    *)
(* (the first malformed field is the one reported); the rest as        *)
(* stated.                                                             *)
(* ------------------------------------------------------------------ *)
C6_CategoricalEncoding ==
    Resolved =>
        \A sub \in {Submitted} :
            \A i \in 1..Len(sub) :
                /\ (/\ HasEncoding(i)
                    /\ sub[i].status = "bad"
                    /\ \A j \in 1..(i - 1) : sub[j].status # "bad")
                   => (outcome = Some(InvalidValue(Schema[i], sub[i].value[1])) /\ NotInvoked)
                /\ calls # <<>> => calls[1][i] = Coerced(i, sub[i].value)

C6_Witness ==
    /\ Done
    /\ disease = Some("breast_cancer")
    /\ LookupField(form, "race") = Some("7")
    /\ outcome = Some(Render("Input Error",
                             "Invalid value '7' for field 'race'. Please select a valid option."))
    /\ NotInvoked

(* ------------------------------------------------------------------ *)
(* C7: when the classifier answers, the outcome is a success carrying  *)
(* the submitted disease name with underscores turned into spaces and  *)
(* title-cased; its verdict contains "High Risk" exactly when the      *)
(* label is the integer 1, contains "Low Risk" for any other integer,  *)
(* and is "Prediction: <label>" for a label that is no integer.        *)
(* ------------------------------------------------------------------ *)
C7_VerdictMapping ==
    (Done /\ reply # None /\ reply[1].kind # "fault")
    => /\ outcome # None
       /\ outcome[1].disease = TitledName[disease[1]]
       /\ outcome[1].result \in MentionHighRisk
          <=> (reply[1].kind = "int" /\ reply[1].value = 1)
       /\ (reply[1].kind = "int" /\ reply[1].value # 1)
          => outcome[1].result \in MentionLowRisk
       /\ reply[1].kind = "other" => outcome[1].result = "Prediction: " \o reply[1].text

C7_Witness ==
    /\ Done
    /\ disease = Some("heart_disease")
    /\ reply = Some(IntLabel(1))
    /\ outcome = Some(Render("Heart Disease", "Positive - High Risk"))

(* ------------------------------------------------------------------ *)
(* C8: an empty or absent disease id yields an input error mentioning  *)
(* "no disease selected", whatever the fields; no field is extracted   *)
(* and no classifier is invoked.                                       *)
(* ------------------------------------------------------------------ *)
C8_NoDiseaseRejected ==
    (Done /\ (disease = None \/ disease = Some("")))
    => /\ outcome # None
       /\ outcome[1].disease = "Input Error"
       /\ outcome[1].result \in MentionNoDiseaseSelected
       /\ NothingExtracted
       /\ NotInvoked

C8_Witness ==
    /\ Done
    /\ disease = Some("")
    /\ Len(form) > 0
    /\ outcome = Some(Render("Input Error", "No disease selected."))

(* ------------------------------------------------------------------ *)
(* C9: with a present malformed field and missing fields in the same   *)
(* submission, the outcome is the error of the first malformed field   *)
(* in schema order, wherever the missing fields stand; the "Missing    *)
(* fields" error is returned only when no present field is malformed.  *)
(* ------------------------------------------------------------------ *)
C9_MalformedBeforeMissing ==
    Resolved =>
        \A sub \in {Submitted} :
            LET bad == {i \in 1..Len(sub) : sub[i].status = "bad"}
                first == CHOOSE i \in bad : \A j \in bad : i <= j
            IN  /\ (bad # {} /\ \E i \in 1..Len(sub) : sub[i].status = "missing")
                   => outcome = Some(MalformedError(first, sub[first].value))
                /\ (outcome # None /\ IsMissingFieldsError(outcome[1])) => bad = {}

C9_Witness ==
    /\ Done
    /\ disease = Some("diabetes")
    /\ LookupField(form, "glucose") = None
    /\ missing_fields = <<"glucose">>
    /\ outcome = Some(Render("Input Error", "Field 'bmi' must be numeric. Got 'abc'."))

(* ------------------------------------------------------------------ *)
(* C10: whenever predict is invoked it is invoked once, on a non-empty *)
(* vector with one entry per schema field in schema order, entry i     *)
(* being the coerced value of field i, and no field is missing.        *)
(* ------------------------------------------------------------------ *)
C10_VectorInSchemaOrder ==
    (Done /\ calls # <<>>)
    => /\ Resolved
       /\ Len(calls) = 1
       /\ Len(calls[1]) = Len(Schema)
       /\ Len(calls[1]) > 0
       /\ missing_fields = <<>>
       /\ \A sub \in {Submitted} :
              \A i \in 1..Len(Schema) :
                  sub[i].status = "ok" /\ calls[1][i] = Coerced(i, sub[i].value)

C10_Witness ==
    /\ Done
    /\ disease = Some("stroke")
    /\ Len(calls) = 1
    /\ Len(calls[1]) = 17
    /\ calls[1][1] = [error |-> "", mant |-> 15, frac |-> 1]
    /\ calls[1][16] = FloatOfInt(16)

====
